---------------------------- MODULE Spec2Model ----------------------------
(***************************************************************************)
(* A model of geezer-slots (src/src/main.rs): the slash-command handlers   *)
(* `pull` and `units` over the two sled stores DB_TICKETS and DB_ACCOUNT,  *)
(* the decorative symbol loop of slot_pull, and the backup thread of main. *)
(*                                                                         *)
(* Text is modelled as sequences of ASCII byte codes: the stores hold the  *)
(* bytes of u64::to_string and the handlers read them back with            *)
(* String::from_utf8_lossy(..).parse().                                    *)
(*                                                                         *)
(* Each interaction is handled by a task of the multi-threaded tokio       *)
(* runtime, so handlers run in parallel. A sled get or insert is atomic;   *)
(* one step of a handler is therefore one store operation together with    *)
(* the local computation around it, and steps of different handlers        *)
(* interleave freely. The backup thread is a thread of its own.            *)
(*                                                                         *)
(* Spec       the pull and units handlers, concurrently, for two users     *)
(* SpecFresh  one new user pulling again and again, one pull at a time     *)
(* SpecDecor  the decorative loop of slot_pull over every draw sequence    *)
(* SpecReply  one reply of slot_pull: pull, row, decorative loop, grid     *)
(* SpecBackup the backup thread beside one interaction                     *)
(***************************************************************************)
EXTENDS Integers, Sequences, FiniteSets, TLC

VARIABLES
    DB_TICKETS,   \* sled store db/tickets: key bytes -> value bytes
    DB_ACCOUNT,   \* sled store db/account: key bytes -> value bytes
    pc,           \* per handler task: where the task is in its handler
    user,         \* per task: command.user.id of the interaction
    tickets,      \* per task: slot_pull's local `tickets`
    pull,         \* per task: slot_pull's local `pull` (the sampled tier)
    account,      \* per task: slot_pull's local `account`
    result,       \* per task: the String the handler returned
    t0,           \* per task: the ticket balance read by the pull (history)
    c0,           \* per task: the user's currency balance when the pull began (history)
    overlap,      \* per task: another pull of the same user ran during this one (history)
    pending,      \* interactions the gateway will still deliver
    wins,         \* accepted pulls that returned (history, kept by SpecFresh)
    paid          \* sum of the units those pulls announced (history, kept by SpecFresh)

pullVars == <<DB_TICKETS, DB_ACCOUNT, pc, user, tickets, pull, account, result,
              t0, c0, overlap, pending>>

\* the handlers' own state, without the stores
handlerVars == <<pc, user, tickets, pull, account, result, t0, c0, overlap, pending>>

freshVars == <<wins, paid>>

VARIABLES
    extra,        \* slot_pull's `extra`: the decorative emojis pushed so far
    last_emote,   \* slot_pull's `last_emote`
    same,         \* slot_pull's `same`
    gpc,          \* where slot_pull is from its sampling on: "loop" inside the decorative loop, "flush" after its break
    hist          \* every emoji the loop drew, in order, and whether it was pushed (history)

genVars == <<extra, last_emote, same, gpc, hist>>

VARIABLES
    drawn,        \* slot_pull's `pull` of the pull whose reply is being built
    row,          \* slot_pull's `row`: the winning row
    msg           \* slot_pull's `msg`: what was pushed to the MessageBuilder, piece by piece

gridVars == <<drawn, row, msg>>

VARIABLES
    bpc,          \* where the backup thread is in its loop; "exited" once its closure returned
    now,          \* the system clock, in seconds since the Unix epoch
    path,         \* the backup thread's `path`: the archive's name
    files,        \* the files of the working directory: name -> content
    bucket,       \* the S3 bucket: object key -> content
    cycles,       \* backup cycles begun (history)
    removed       \* the files whose remove_file returned Ok in the last clean up (history)

backupVars == <<bpc, now, path, files, bucket, cycles, removed>>

---------------------------------------------------------------------------
(* Bounds of the model *)

\* interactions delivered in one behaviour of Spec
MaxEvents == 2
\* largest ticket balance a store holds initially in Spec
MaxInitTickets == 1

\* backup cycles begun in one behaviour of SpecBackup
MaxCycles == 1
\* bytes of a dump that a failing export may have written
MaxPartial == 1

\* interactions delivered in one behaviour of SpecFresh
FreshPulls == 52
\* the tiers sampled in SpecFresh: the first MaxFreshTier of the enum
MaxFreshTier == 3

\* the tiers the decorative loop samples in SpecReply: the first MaxGridTier
MaxGridTier == 3

\* handler tasks that can be in flight at once
Tasks == {1, 2}

\* Discord user ids (u64): two users whose ids agree in their low 8 bits
Users == {7, 263}

---------------------------------------------------------------------------
(* u64 text conversions *)

\* the largest value of the unsigned word. The program's word is u64; TLC's
\* integers end at 2^31 - 1, so the model's word is 31 bits wide. Every
\* balance the model reaches lies far below either limit.
WordMax == 2147483647

Digit(b) == b \in 48..57

RECURSIVE to_string(_)
\* u64::to_string: the decimal digits, most significant first, no leading zero
to_string(n) ==
    IF n < 10 THEN <<48 + n>>
    ELSE to_string(n \div 10) \o <<48 + (n % 10)>>

RECURSIVE DigitsValue(_)
DigitsValue(s) ==
    IF Len(s) = 0 THEN 0
    ELSE 10 * DigitsValue(SubSeq(s, 1, Len(s) - 1)) + (s[Len(s)] - 48)

ParseErr == -1

\* str::parse::<u64>: an optional '+', then one or more digits, within u64;
\* ParseErr stands for Err(ParseIntError), which the callers unwrap
parse(s) ==
    LET body == IF Len(s) > 0 /\ s[1] = 43 THEN Tail(s) ELSE s
    IN  IF Len(body) = 0 \/ \E i \in 1..Len(body) : ~Digit(body[i])
        THEN ParseErr
        ELSE IF Len(body) > 9 THEN ParseErr   \* beyond the model's word
        ELSE DigitsValue(body)

\* `tickets -= 1` as the release build computes it: 0 wraps to the word's maximum
WrappingSub1(n) == IF n = 0 THEN WordMax ELSE n - 1

\* `account + units` as the release build computes it (modulo the word)
WrappingAdd(a, b) == IF a > WordMax - b THEN (a - (WordMax - b)) - 1 ELSE a + b

---------------------------------------------------------------------------
(* The sled stores *)

None == <<>>

\* Db::get: Some(value) or None
Get(db, k) == IF k \in DOMAIN db THEN db[k] ELSE None

\* Db::insert: sets the value of one key and leaves every other key alone
Insert(db, k, v) ==
    [x \in (DOMAIN db) \cup {k} |-> IF x = k THEN v ELSE db[x]]

\* a key taken from the id narrowed to 8 bits: ids 7 and 263 share it
KeyNarrowed(u) == to_string(u % 256)

\* the key both handlers use: user.to_string()
Key(u) == to_string(u)

DefaultTickets == 50

\* the read without the grant to a user with no entry
ReadTicketsNoGrant(db, u) ==
    IF Get(db, Key(u)) = None THEN 0 ELSE parse(Get(db, Key(u)))

\* slot_pull's read of the ticket balance: parsed, or 50 when absent
ReadTickets(db, u) ==
    IF Get(db, Key(u)) = None THEN DefaultTickets ELSE parse(Get(db, Key(u)))

\* the read of the currency balance (slot_pull and get_units): parsed, or 0
ReadAccount(db, u) ==
    IF Get(db, Key(u)) = None THEN 0 ELSE parse(Get(db, Key(u)))

---------------------------------------------------------------------------
(* Reward tiers *)

Pulls == <<"VCommon", "Common", "Uncommon", "Rare", "VRare", "Epic",
           "Legendary", "Jackpot">>

Tiers == {Pulls[i] : i \in 1..Len(Pulls)}

\* the units of the match on `pull`
Units(p) ==
    CASE p = "VCommon"   -> 0
      [] p = "Common"    -> 25
      [] p = "Uncommon"  -> 100
      [] p = "Rare"      -> 250
      [] p = "VRare"     -> 500
      [] p = "Epic"      -> 1000
      [] p = "Legendary" -> 2500
      [] p = "Jackpot"   -> 5000

---------------------------------------------------------------------------
(* The handlers *)

\* the decline message (after its leading cross-mark emoji)
NoTickets == "Unfortunately, you do not have any tickets to perform pulls."

NoResult == [kind |-> "none", text |-> <<>>]

\* a pull between its first store read and its return (or panic)
InPull(t) == pc[t] \in {"eat", "guild", "add"}

Free(t) == pc[t] \in {"idle", "done", "panicked"}

\* the runtime hands an interaction to a task that is not running a handler;
\* tasks are interchangeable, so the model takes the first one
Spawn(t) == Free(t) /\ \A s \in Tasks : Free(s) => t <= s

\* interaction_create, "pull": slot_pull starts and reads the ticket balance
GetTickets(t, u) ==
    /\ Spawn(t)
    /\ pending > 0
    /\ pending' = pending - 1
    /\ LET n == ReadTickets(DB_TICKETS, u)
           others == {s \in Tasks \ {t} : InPull(s) /\ user[s] = u}
       IN  /\ user' = [user EXCEPT ![t] = u]
           /\ tickets' = [tickets EXCEPT ![t] = IF n = ParseErr THEN 0 ELSE n]
           /\ t0' = [t0 EXCEPT ![t] = n]
           /\ c0' = [c0 EXCEPT ![t] = ReadAccount(DB_ACCOUNT, u)]
           /\ overlap' = [s \in Tasks |->
                            IF s = t THEN others # {}
                            ELSE IF s \in others THEN TRUE ELSE overlap[s]]
           /\ pc' = [pc EXCEPT ![t] = IF n = ParseErr THEN "panicked" ELSE "eat"]
    /\ pull' = [pull EXCEPT ![t] = "none"]
    /\ account' = [account EXCEPT ![t] = 0]
    /\ result' = [result EXCEPT ![t] = NoResult]
    /\ UNCHANGED <<DB_TICKETS, DB_ACCOUNT>>

\* the check left out: every balance passes
HasTicketAlways(n) == n >= 0

\* the check inverted: only a zero balance passes
HasTicketInverted(n) == n = 0

\* the ticket check: a zero balance is turned away
HasTicket(n) == n # 0

\* the check and the decrement made on the balance as it is stored now, in
\* one store operation
EatTicketAtomic(t) ==
    /\ pc[t] = "eat"
    /\ LET n == ReadTickets(DB_TICKETS, user[t])
       IN  IF HasTicket(n)
           THEN /\ tickets' = [tickets EXCEPT ![t] = WrappingSub1(n)]
                /\ DB_TICKETS' = Insert(DB_TICKETS, Key(user[t]), to_string(tickets'[t]))
                /\ pc' = [pc EXCEPT ![t] = "guild"]
                /\ UNCHANGED result
           ELSE /\ result' = [result EXCEPT ![t] = [kind |-> "declined", text |-> NoTickets]]
                /\ pc' = [pc EXCEPT ![t] = "done"]
                /\ tickets' = [tickets EXCEPT ![t] = 0]
                /\ UNCHANGED DB_TICKETS
    /\ UNCHANGED <<DB_ACCOUNT, user, pull, account, t0, c0, overlap, pending>>

\* "eat a ticket": decrement and store, or return the decline message
EatTicket(t) ==
    /\ pc[t] = "eat"
    /\ IF HasTicket(tickets[t])
       THEN /\ tickets' = [tickets EXCEPT ![t] = WrappingSub1(tickets[t])]
            /\ DB_TICKETS' = Insert(DB_TICKETS, Key(user[t]), to_string(tickets'[t]))
            /\ pc' = [pc EXCEPT ![t] = "guild"]
            /\ UNCHANGED result
       ELSE /\ result' = [result EXCEPT ![t] = [kind |-> "declined", text |-> NoTickets]]
            /\ pc' = [pc EXCEPT ![t] = "done"]
            /\ tickets' = [tickets EXCEPT ![t] = 0]
            /\ UNCHANGED DB_TICKETS
    /\ UNCHANGED <<DB_ACCOUNT, user, pull, account, t0, c0, overlap, pending>>

\* the panic undone first: the balance read at the start is stored back
GetGuildPanicRefund(t) ==
    /\ pc[t] = "guild"
    /\ DB_TICKETS' = Insert(DB_TICKETS, Key(user[t]), to_string(t0[t]))
    /\ pc' = [pc EXCEPT ![t] = "panicked"]
    /\ tickets' = [tickets EXCEPT ![t] = 0]
    /\ UNCHANGED <<DB_ACCOUNT, user, pull, account, result, t0, c0, overlap, pending>>

\* one of the expect/unwrap calls of the emoji assembly (GUILD_ID, get_guild,
\* the emoji lookups) panics: the task ends without a reply
GetGuildPanic(t) ==
    /\ pc[t] = "guild"
    /\ pc' = [pc EXCEPT ![t] = "panicked"]
    /\ tickets' = [tickets EXCEPT ![t] = 0]
    /\ UNCHANGED <<DB_TICKETS, DB_ACCOUNT, user, pull, account, result,
                   t0, c0, overlap, pending>>

\* the read of the currency balance fails: DB_ACCOUNT.get returns Err, or
\* the stored bytes do not parse and the unwrap panics
GetAccountPanic(t) ==
    /\ pc[t] = "guild"
    /\ pc' = [pc EXCEPT ![t] = "panicked"]
    /\ tickets' = [tickets EXCEPT ![t] = 0]
    /\ UNCHANGED <<DB_TICKETS, DB_ACCOUNT, user, pull, account, result,
                   t0, c0, overlap, pending>>

\* the emojis are assembled, then "perform a pull": the tier is sampled and
\* the user's currency balance read
PerformPull(t, p) ==
    /\ pc[t] = "guild"
    /\ LET n == ReadAccount(DB_ACCOUNT, user[t])
       IN  /\ account' = [account EXCEPT ![t] = IF n = ParseErr THEN 0 ELSE n]
           /\ pull' = [pull EXCEPT ![t] = IF n = ParseErr THEN "none" ELSE p]
           /\ pc' = [pc EXCEPT ![t] = IF n = ParseErr THEN "panicked" ELSE "add"]
           /\ tickets' = [tickets EXCEPT ![t] = IF n = ParseErr THEN 0 ELSE @]
    /\ UNCHANGED <<DB_TICKETS, DB_ACCOUNT, user, result, t0, c0, overlap, pending>>

\* the payout stored in place of the sum
CreditOverwrites(a, p) == Units(p)

\* the value stored as the new currency balance
Credit(a, p) == WrappingAdd(a, Units(p))

\* "add units to user's count": the insert into DB_ACCOUNT; the rest of
\* slot_pull (row, decorative symbols, flush, rendering) touches no balance
\* and ends in the message ", Won <units> Units!"
AddUnits(t) ==
    /\ pc[t] = "add"
    /\ DB_ACCOUNT' = Insert(DB_ACCOUNT, Key(user[t]),
                            to_string(Credit(account[t], pull[t])))
    /\ result' = [result EXCEPT ![t] =
                    [kind |-> "won", text |-> to_string(Units(pull[t]))]]
    /\ pc' = [pc EXCEPT ![t] = "done"]
    /\ tickets' = [tickets EXCEPT ![t] = 0]
    /\ account' = [account EXCEPT ![t] = 0]
    /\ pull' = [pull EXCEPT ![t] = "none"]
    /\ UNCHANGED <<DB_TICKETS, user, t0, c0, overlap, pending>>

\* DB_ACCOUNT.insert returns Err and the unwrap panics: nothing is stored
AddUnitsPanic(t) ==
    /\ pc[t] = "add"
    /\ pc' = [pc EXCEPT ![t] = "panicked"]
    /\ tickets' = [tickets EXCEPT ![t] = 0]
    /\ account' = [account EXCEPT ![t] = 0]
    /\ pull' = [pull EXCEPT ![t] = "none"]
    /\ UNCHANGED <<DB_TICKETS, DB_ACCOUNT, user, result, t0, c0, overlap, pending>>

\* interaction_create, "units": get_units reads the balance and answers
get_units(t, u) ==
    /\ Spawn(t)
    /\ pending > 0
    /\ pending' = pending - 1
    /\ LET n == ReadAccount(DB_ACCOUNT, u)
       IN  /\ result' = [result EXCEPT ![t] =
                           IF n = ParseErr THEN NoResult
                           ELSE [kind |-> "units", text |-> to_string(n)]]
           /\ pc' = [pc EXCEPT ![t] = IF n = ParseErr THEN "panicked" ELSE "done"]
    /\ user' = [user EXCEPT ![t] = u]
    /\ tickets' = [tickets EXCEPT ![t] = 0]
    /\ t0' = [t0 EXCEPT ![t] = 0]
    /\ c0' = [c0 EXCEPT ![t] = 0]
    /\ overlap' = [overlap EXCEPT ![t] = FALSE]
    /\ UNCHANGED <<DB_TICKETS, DB_ACCOUNT, pull, account>>

vars == <<pullVars, freshVars, genVars, gridVars, backupVars>>

\* a store holding `val[u]` for the users of `present` and nothing else
Ledger(present, val) ==
    [k \in {Key(u) : u \in present} |->
        to_string(val[CHOOSE u \in present : Key(u) = k])]

---------------------------------------------------------------------------
(* The decorative loop of slot_pull *)

\* the emoji of the match on `emote_rarity`
Emoji(p) ==
    CASE p = "VCommon"   -> "thisdog"
      [] p = "Common"    -> "delfruit"
      [] p = "Uncommon"  -> "bigface"
      [] p = "Rare"      -> "miku"
      [] p = "VRare"     -> "tagfacehd"
      [] p = "Epic"      -> "patsball"
      [] p = "Legendary" -> "fruitpride"
      [] p = "Jackpot"   -> "mayumushi"

\* a decorative emoji as the initial last_emote
emoji_thisdog == "thisdog"

\* the emoji `last_emote` starts as: none of the decorative ones
emoji_default == "default"

\* extra.len() at which the loop breaks
Enough == 6

\* every draw past the second repeat is sent back
RerollAtLeast(n) == n >= 2

\* no draw is ever sent back
RerollNever(n) == FALSE

\* "if we hit the same emote 2 times in a row, we have to reroll"
Reroll(n) == n = 2

InitGen ==
    /\ extra = <<>>
    /\ last_emote = emoji_default
    /\ same = 0
    /\ gpc = "loop"
    /\ hist = <<>>

\* one iteration of the loop with `emote_rarity` sampled as p
Decorate(p) ==
    /\ gpc = "loop"
    /\ LET emoji == Emoji(p)
           hit == emoji = last_emote
           n == IF hit THEN same + 1 ELSE 0
       IN  /\ same' = n
           /\ last_emote' = IF hit THEN last_emote ELSE emoji
           /\ IF Reroll(n)
              THEN /\ hist' = Append(hist, [emoji |-> emoji, pushed |-> FALSE])
                   /\ UNCHANGED <<extra, gpc>>
              ELSE /\ hist' = Append(hist, [emoji |-> emoji, pushed |-> TRUE])
                   /\ extra' = Append(extra, emoji)
                   /\ gpc' = IF Len(extra') = Enough THEN "flush" ELSE "loop"

---------------------------------------------------------------------------
(* The reply of slot_pull: the winning row among the decorative emojis *)

\* the emote of the match on `pull`
Emote(p) ==
    CASE p = "VCommon"   -> "thisdog"
      [] p = "Common"    -> "delfruit"
      [] p = "Uncommon"  -> "bigface"
      [] p = "Rare"      -> "miku"
      [] p = "VRare"     -> "tagfacehd"
      [] p = "Epic"      -> "patsball"
      [] p = "Legendary" -> "fruitpride"
      [] p = "Jackpot"   -> "mayumushi_ani"

\* the react of the match on `pull`; emoji_kidd is emoji_default
React(p) ==
    CASE p = "VCommon"   -> "kidangry"
      [] p = "Common"    -> "kidsleeper"
      [] p = "Uncommon"  -> "kidunamused"
      [] p = "Rare"      -> "kidthinking"
      [] p = "VRare"     -> "kidchamp"
      [] p = "Epic"      -> "kidchamp"
      [] p = "Legendary" -> "kidchamp"
      [] p = "Jackpot"   -> emoji_default

\* units.to_string() of the match on `pull`, as the text pushed to the message
UnitsText(p) ==
    CASE p = "VCommon"   -> "0"
      [] p = "Common"    -> "25"
      [] p = "Uncommon"  -> "100"
      [] p = "Rare"      -> "250"
      [] p = "VRare"     -> "500"
      [] p = "Epic"      -> "1000"
      [] p = "Legendary" -> "2500"
      [] p = "Jackpot"   -> "5000"

\* the values `row` is sampled from: gen_range(0..=2)
Rows == 0..2

InitGrid ==
    /\ drawn = "none"
    /\ row = 0
    /\ msg = <<>>

\* "perform a pull" and "which row is the winning one": the tier and the row
\* are sampled, and the locals of the decorative loop set up
SamplePull(p, r) ==
    /\ gpc = "pull"
    /\ drawn' = p
    /\ row' = r
    /\ extra' = <<>>
    /\ last_emote' = emoji_default
    /\ same' = 0
    /\ gpc' = "loop"
    /\ UNCHANGED <<hist, msg>>

\* the join of the two flush_async calls, whose results are dropped, and
\* MessageBuilder::new()
Flush ==
    /\ gpc = "flush"
    /\ msg' = <<>>
    /\ gpc' = "line1"
    /\ UNCHANGED <<extra, last_emote, same, hist, drawn, row>>

\* the three lines of the reply, top to bottom, and what follows them
AfterLine(g) ==
    CASE g = "line1" -> "line2"
      [] g = "line2" -> "line3"
      [] g = "line3" -> "react"

LinePcs == {"line1", "line2", "line3"}

\* the winning row written first in every branch
WinningLineFirst(r) == "line1"

\* the line at which the branch of `row` pushes the winning row
WinningLine(r) ==
    CASE r = 0 -> "line1"
      [] r = 1 -> "line2"
      [] OTHER -> "line3"

\* the first loop breaking one pop late: 4 cells on its line, 2 on the next
StopAtLate(g, r) ==
    IF g = (IF r = 0 THEN "line2" ELSE "line1") THEN 2 ELSE 0

\* the extra.len() at which the loop writing line g breaks: each branch has a
\* first loop that runs until 3 are left and a second that runs until none is
StopAt(g, r) ==
    IF g = (IF r = 0 THEN "line2" ELSE "line1") THEN 3 ELSE 0

\* the first element taken instead of the last
PopItemFront(v) == v[1]

\* Vec::pop: the element returned
PopItem(v) == v[Len(v)]

\* the first element left in place and the last one dropped
PopRestFront(v) == Tail(v)

\* Vec::pop: what the vector holds afterwards
PopRest(v) == SubSeq(v, 1, Len(v) - 1)

\* the winning row: |emote|emote|emote|\n
PushWinning ==
    /\ gpc \in LinePcs
    /\ gpc = WinningLine(row)
    /\ msg' = msg \o <<"|", Emote(drawn), "|", Emote(drawn), "|", Emote(drawn),
                       "|", "\n">>
    /\ gpc' = AfterLine(gpc)
    /\ UNCHANGED <<extra, last_emote, same, hist, drawn, row>>

\* one iteration of a loop over extra.pop().unwrap(): the emoji is pushed
\* after a "|", and the line closed when the loop breaks; popping an empty
\* vector panics at the unwrap
PopExtra ==
    /\ gpc \in LinePcs
    /\ gpc # WinningLine(row)
    /\ IF extra = <<>>
       THEN /\ gpc' = "panicked"
            /\ UNCHANGED <<extra, msg>>
       ELSE /\ extra' = PopRest(extra)
            /\ IF Len(extra') = StopAt(gpc, row)
               THEN /\ msg' = msg \o <<"|", PopItem(extra), "|", "\n">>
                    /\ gpc' = AfterLine(gpc)
               ELSE /\ msg' = msg \o <<"|", PopItem(extra)>>
                    /\ gpc' = gpc
    /\ UNCHANGED <<last_emote, same, hist, drawn, row>>

\* msg.emoji(react).push(", Won " + units + " Units!").build()
Build ==
    /\ gpc = "react"
    /\ msg' = msg \o <<React(drawn), ", Won ", UnitsText(drawn), " Units!">>
    /\ gpc' = "built"
    /\ UNCHANGED <<extra, last_emote, same, hist, drawn, row>>

---------------------------------------------------------------------------
(* The backup thread of main *)

\* a < b in the order sled keeps its keys: bytewise lexicographic
RECURSIVE LexLess(_, _)
LexLess(a, b) ==
    IF Len(b) = 0 THEN FALSE
    ELSE IF Len(a) = 0 THEN TRUE
    ELSE IF a[1] # b[1] THEN a[1] < b[1]
    ELSE LexLess(Tail(a), Tail(b))

\* the keys of a set, in sled's order
RECURSIVE InOrder(_)
InOrder(keys) ==
    IF keys = {} THEN <<>>
    ELSE LET first == CHOOSE k \in keys : \A o \in keys \ {k} : LexLess(k, o)
         IN  <<first>> \o InOrder(keys \ {first})

\* Db::export of a store with only the default tree: one collection, typed
\* "tree" and named "__sled__default", whose items are [key, value]
ExportType == <<116, 114, 101, 101>>
ExportName == <<95, 95, 115, 108, 101, 100, 95, 95, 100, 101, 102, 97, 117, 108, 116>>

Export(db) ==
    LET ks == InOrder(DOMAIN db)
    IN  [i \in 1..Len(ks) |-> <<ks[i], db[ks[i]]>>]

\* the counter never leaving 0: a "," after the value as well
RECURSIVE WriteKvStuck(_, _)
WriteKvStuck(kv, counter) ==
    IF Len(kv) = 0 THEN <<>>
    ELSE kv[1] \o <<44>> \o WriteKvStuck(Tail(kv), 0)


\* the inner `for data in kv.into_iter()` with its counter: each datum is
\* written, followed by "," when the counter is 0 and by "\n" otherwise
RECURSIVE WriteKv(_, _)
WriteKv(kv, counter) ==
    IF Len(kv) = 0 THEN <<>>
    ELSE IF counter = 0
         THEN kv[1] \o <<44>> \o WriteKv(Tail(kv), 1)
         ELSE kv[1] \o <<10>> \o WriteKv(Tail(kv), 0)

RECURSIVE WriteKvs(_)
WriteKvs(kvs) ==
    IF Len(kvs) = 0 THEN <<>>
    ELSE WriteKv(kvs[1], 0) \o WriteKvs(Tail(kvs))

\* what export_tickets_db_tree / export_account_db_tree write to their file
Dump(db) == ExportType \o <<10>> \o ExportName \o <<10>> \o WriteKvs(Export(db))

\* file names: a decimal prefix (empty for the two flat files) and a fixed rest
TicketsTxt == <<None, "tickets.txt">>
AccountTxt == <<None, "account.txt">>
BackupZip(t) == <<to_string(t), "_backup.zip">>

\* file contents: the bytes of a flat file, or the entries of an archive
Flat(bytes) == [data |-> bytes, entries |-> <<>>]
Archive(entries) == [data |-> <<>>, entries |-> entries]

\* File::create: the file exists afterwards with the given content
Create(fs, name, content) ==
    [f \in (DOMAIN fs) \cup {name} |-> IF f = name THEN content ELSE fs[f]]

\* fs::remove_file; its result is dropped by the caller
Remove(fs, name) == [f \in (DOMAIN fs) \ {name} |-> fs[f]]

\* the sleep of the thread: 4 hours, in seconds
SleepSecs == 14400

\* the clock when the process starts
Epoch0 == 1700000000

InitBackupThread ==
    /\ bpc = "sleep"
    /\ now = Epoch0
    /\ path = None
    /\ files = <<>>
    /\ bucket = <<>>
    /\ cycles = 0
    /\ removed = {}

\* thread::sleep returns and the cycle begins
Sleep ==
    /\ bpc = "sleep"
    /\ cycles < MaxCycles
    /\ cycles' = cycles + 1
    /\ now' = now + SleepSecs
    /\ bpc' = "tickets"
    /\ UNCHANGED <<path, files, bucket, removed, DB_TICKETS, DB_ACCOUNT>>

\* an export that takes the entries out of the store it dumps
ExportTicketsDrains ==
    /\ bpc = "tickets"
    /\ files' = Create(files, TicketsTxt, Flat(Dump(DB_TICKETS)))
    /\ DB_TICKETS' = <<>>
    /\ bpc' = "account"
    /\ UNCHANGED <<now, path, bucket, cycles, removed, DB_ACCOUNT>>

\* export_tickets_db_tree returns Ok: tickets.txt holds the dump of DB_TICKETS
ExportTickets ==
    /\ bpc = "tickets"
    /\ files' = Create(files, TicketsTxt, Flat(Dump(DB_TICKETS)))
    /\ bpc' = "account"
    /\ UNCHANGED <<now, path, bucket, cycles, removed, DB_TICKETS, DB_ACCOUNT>>

\* export_account_db_tree returns Ok: account.txt holds the dump of DB_ACCOUNT
ExportAccount ==
    /\ bpc = "account"
    /\ files' = Create(files, AccountTxt, Flat(Dump(DB_ACCOUNT)))
    /\ bpc' = "zip"
    /\ UNCHANGED <<now, path, bucket, cycles, removed, DB_TICKETS, DB_ACCOUNT>>

\* backup_task returns Ok(t): the archive holds db/ and the two flat files
BackupTask ==
    /\ bpc = "zip"
    /\ path' = BackupZip(now)
    /\ files' = Create(files, path',
                       Archive(<< <<"db/", <<>> >>,
                                  <<"db/tickets.txt", files[TicketsTxt].data>>,
                                  <<"db/account.txt", files[AccountTxt].data>> >>))
    /\ bpc' = "upload"
    /\ UNCHANGED <<now, bucket, cycles, removed, DB_TICKETS, DB_ACCOUNT>>

\* the object put under one fixed key
UploadFixedKey ==
    /\ bpc = "upload"
    /\ bucket' = Create(bucket, <<None, "_backup.zip">>, files[path])
    /\ bpc' = "cleanup"
    /\ UNCHANGED <<now, path, files, cycles, removed, DB_TICKETS, DB_ACCOUNT>>

\* the archive is read back and put_object returns Ok
Upload ==
    /\ bpc = "upload"
    /\ bucket' = Create(bucket, path, files[path])
    /\ bpc' = "cleanup"
    /\ UNCHANGED <<now, path, files, cycles, removed, DB_TICKETS, DB_ACCOUNT>>

\* `let _ = remove_file(name)`: the file is gone if the call returned Ok and
\* stays if it returned Err; the result is dropped either way
RemoveFile(fs, name, ok) == IF ok THEN Remove(fs, name) ELSE fs

\* "clean up": the three remove_file calls, and the loop goes round
CleanUp(okTickets, okAccount, okZip) ==
    /\ bpc = "cleanup"
    /\ files' = RemoveFile(RemoveFile(RemoveFile(files, TicketsTxt, okTickets),
                                      AccountTxt, okAccount),
                           path, okZip)
    /\ removed' = {f \in {TicketsTxt, AccountTxt, path} :
                      \/ f = TicketsTxt /\ okTickets
                      \/ f = AccountTxt /\ okAccount
                      \/ f = path /\ okZip}
    /\ bpc' = "sleep"
    /\ UNCHANGED <<now, path, bucket, cycles, DB_TICKETS, DB_ACCOUNT>>

\* where a `?` of the closure sends an Err: the closure returns it, which
\* ends the loop and the thread
OnErr == "exited"

\* an export fails: at File::create (no file written), or at a later write
\* with the first n bytes of the dump in the file
ExportFails(created, n) ==
    /\ bpc \in {"tickets", "account"}
    /\ LET name == IF bpc = "tickets" THEN TicketsTxt ELSE AccountTxt
           dump == Dump(IF bpc = "tickets" THEN DB_TICKETS ELSE DB_ACCOUNT)
       IN  /\ n < Len(dump)
           /\ files' = IF created
                       THEN Create(files, name, Flat(SubSeq(dump, 1, n)))
                       ELSE files
    /\ bpc' = OnErr
    /\ UNCHANGED <<now, path, bucket, cycles, removed, DB_TICKETS, DB_ACCOUNT>>

\* backup_task fails: at File::create, or later with the archive begun
BackupTaskFails(created) ==
    /\ bpc = "zip"
    /\ files' = IF created
                THEN Create(files, BackupZip(now), Archive(<< <<"db/", <<>> >> >>))
                ELSE files
    /\ bpc' = OnErr
    /\ UNCHANGED <<now, path, bucket, cycles, removed, DB_TICKETS, DB_ACCOUNT>>

\* File::open, read_to_end or put_object fails
UploadFails ==
    /\ bpc = "upload"
    /\ bpc' = OnErr
    /\ UNCHANGED <<now, path, files, bucket, cycles, removed, DB_TICKETS, DB_ACCOUNT>>

InitTasks ==
    /\ pc = [t \in Tasks |-> "idle"]
    /\ user = [t \in Tasks |-> 7]
    /\ tickets = [t \in Tasks |-> 0]
    /\ pull = [t \in Tasks |-> "none"]
    /\ account = [t \in Tasks |-> 0]
    /\ result = [t \in Tasks |-> NoResult]
    /\ t0 = [t \in Tasks |-> 0]
    /\ c0 = [t \in Tasks |-> 0]
    /\ overlap = [t \in Tasks |-> FALSE]

\* Each user is new (no entry in either store) or has pulled before: a ticket
\* balance and a currency balance of one Common payout.
Init ==
    /\ \E played \in SUBSET Users, left \in [Users -> 0..MaxInitTickets] :
          /\ DB_TICKETS = Ledger(played, left)
          /\ DB_ACCOUNT = Ledger(played, [u \in Users |-> Units("Common")])
    /\ InitTasks
    /\ pending = MaxEvents
    /\ wins = 0
    /\ paid = 0
    /\ InitGen
    /\ InitGrid
    /\ InitBackupThread

Next ==
    \/ \E t \in Tasks, u \in Users : GetTickets(t, u) /\ UNCHANGED <<freshVars, genVars, gridVars, backupVars>>
    \/ \E t \in Tasks : EatTicket(t) /\ UNCHANGED <<freshVars, genVars, gridVars, backupVars>>
    \/ \E t \in Tasks : GetGuildPanic(t) /\ UNCHANGED <<freshVars, genVars, gridVars, backupVars>>
    \/ \E t \in Tasks : GetAccountPanic(t) /\ UNCHANGED <<freshVars, genVars, gridVars, backupVars>>
    \/ \E t \in Tasks, p \in Tiers : PerformPull(t, p) /\ UNCHANGED <<freshVars, genVars, gridVars, backupVars>>
    \/ \E t \in Tasks : AddUnits(t) /\ UNCHANGED <<freshVars, genVars, gridVars, backupVars>>
    \/ \E t \in Tasks : AddUnitsPanic(t) /\ UNCHANGED <<freshVars, genVars, gridVars, backupVars>>
    \/ \E t \in Tasks, u \in Users : get_units(t, u) /\ UNCHANGED <<freshVars, genVars, gridVars, backupVars>>

\* Interactions of both users, handled concurrently by the tasks.
Spec == Init /\ [][Next]_vars

---------------------------------------------------------------------------
(* One new user pulling again and again, each pull after the last returned *)

\* the new user: the one with the longer id
FreshUser == CHOOSE u \in Users : u > 255

FreshTiers == {Pulls[i] : i \in 1..MaxFreshTier}

InitFresh ==
    /\ DB_TICKETS = Ledger({}, [u \in Users |-> 0])
    /\ DB_ACCOUNT = Ledger({}, [u \in Users |-> 0])
    /\ InitTasks
    /\ pending = FreshPulls
    /\ wins = 0
    /\ paid = 0
    /\ InitGen
    /\ InitGrid
    /\ InitBackupThread

NextFresh ==
    \/ \E t \in Tasks :
          /\ \A s \in Tasks : ~InPull(s)
          /\ GetTickets(t, FreshUser)
          /\ UNCHANGED <<freshVars, genVars, gridVars, backupVars>>
    \/ \E t \in Tasks : EatTicket(t) /\ UNCHANGED <<freshVars, genVars, gridVars, backupVars>>
    \/ \E t \in Tasks, p \in FreshTiers : PerformPull(t, p) /\ UNCHANGED <<freshVars, genVars, gridVars, backupVars>>
    \/ \E t \in Tasks :
          /\ AddUnits(t)
          /\ wins' = wins + 1
          /\ paid' = paid + Units(pull[t])
          /\ UNCHANGED <<genVars, gridVars, backupVars>>

SpecFresh == InitFresh /\ [][NextFresh]_vars

---------------------------------------------------------------------------
(* The decorative loop on its own, over every sequence of sampled tiers *)

InitDecor ==
    /\ DB_TICKETS = Ledger({}, [u \in Users |-> 0])
    /\ DB_ACCOUNT = Ledger({}, [u \in Users |-> 0])
    /\ InitTasks
    /\ pending = 0
    /\ wins = 0
    /\ paid = 0
    /\ InitGen
    /\ InitGrid
    /\ InitBackupThread

NextDecor ==
    \E p \in Tiers : Decorate(p) /\ UNCHANGED <<pullVars, freshVars, gridVars, backupVars>>

SpecDecor == InitDecor /\ [][NextDecor]_vars

---------------------------------------------------------------------------
(* One reply: the pull and the row sampled, the decorative loop, the grid *)

GridTiers == {Pulls[i] : i \in 1..MaxGridTier}

InitReply ==
    /\ DB_TICKETS = Ledger({}, [u \in Users |-> 0])
    /\ DB_ACCOUNT = Ledger({}, [u \in Users |-> 0])
    /\ InitTasks
    /\ pending = 0
    /\ wins = 0
    /\ paid = 0
    /\ extra = <<>>
    /\ last_emote = emoji_default
    /\ same = 0
    /\ gpc = "pull"
    /\ hist = <<>>
    /\ InitGrid
    /\ InitBackupThread

NextReply ==
    \/ \E p \in Tiers, r \in Rows :
          SamplePull(p, r) /\ UNCHANGED <<pullVars, freshVars, backupVars>>
    \/ \E p \in GridTiers :
          Decorate(p) /\ UNCHANGED <<pullVars, freshVars, gridVars, backupVars>>
    \/ Flush /\ UNCHANGED <<pullVars, freshVars, backupVars>>
    \/ PushWinning /\ UNCHANGED <<pullVars, freshVars, backupVars>>
    \/ PopExtra /\ UNCHANGED <<pullVars, freshVars, backupVars>>
    \/ Build /\ UNCHANGED <<pullVars, freshVars, backupVars>>

SpecReply == InitReply /\ [][NextReply]_vars

---------------------------------------------------------------------------
(* The backup thread beside one interaction *)

InitBackup ==
    /\ \E played \in SUBSET Users, left \in [Users -> 0..MaxInitTickets] :
          /\ DB_TICKETS = Ledger(played, left)
          /\ DB_ACCOUNT = Ledger(played, [u \in Users |-> Units("Common")])
    /\ InitTasks
    /\ pending = 1
    /\ wins = 0
    /\ paid = 0
    /\ InitGen
    /\ InitGrid
    /\ InitBackupThread

NextBackup ==
    \/ Sleep /\ UNCHANGED <<handlerVars, freshVars, genVars, gridVars>>
    \/ ExportTickets /\ UNCHANGED <<handlerVars, freshVars, genVars, gridVars>>
    \/ ExportAccount /\ UNCHANGED <<handlerVars, freshVars, genVars, gridVars>>
    \/ BackupTask /\ UNCHANGED <<handlerVars, freshVars, genVars, gridVars>>
    \/ Upload /\ UNCHANGED <<handlerVars, freshVars, genVars, gridVars>>
    \/ \E okTickets, okAccount, okZip \in BOOLEAN :
          CleanUp(okTickets, okAccount, okZip)
             /\ UNCHANGED <<handlerVars, freshVars, genVars, gridVars>>
    \/ \E created \in BOOLEAN, n \in 0..MaxPartial :
          ExportFails(created, n) /\ UNCHANGED <<handlerVars, freshVars, genVars, gridVars>>
    \/ \E created \in BOOLEAN :
          BackupTaskFails(created) /\ UNCHANGED <<handlerVars, freshVars, genVars, gridVars>>
    \/ UploadFails /\ UNCHANGED <<handlerVars, freshVars, genVars, gridVars>>
    \/ \E t \in Tasks, u \in Users :
          GetTickets(t, u) /\ UNCHANGED <<freshVars, genVars, gridVars, backupVars>>
    \/ \E t \in Tasks : EatTicket(t) /\ UNCHANGED <<freshVars, genVars, gridVars, backupVars>>
    \/ \E t \in Tasks, p \in Tiers :
          PerformPull(t, p) /\ UNCHANGED <<freshVars, genVars, gridVars, backupVars>>
    \/ \E t \in Tasks : AddUnits(t) /\ UNCHANGED <<freshVars, genVars, gridVars, backupVars>>

SpecBackup == InitBackup /\ [][NextBackup]_vars

---------------------------------------------------------------------------
(* Properties of the pull and units handlers *)

\* the payouts as the specification lists them, in the order of the tiers
Payouts == <<0, 25, 100, 250, 500, 1000, 2500, 5000>>

Payout(p) == Payouts[CHOOSE i \in 1..Len(Pulls) : Pulls[i] = p]

\* the balances stored for a user, as numbers; NoEntry when the key is absent
NoEntry == ParseErr - 1

StoredTickets(db, u) ==
    IF to_string(u) \in DOMAIN db THEN parse(db[to_string(u)]) ELSE NoEntry

StoredUnits(db, u) ==
    IF to_string(u) \in DOMAIN db THEN parse(db[to_string(u)]) ELSE NoEntry

\* task t returns from an accepted pull in this step
Returns(t) == pc[t] = "add" /\ pc'[t] = "done"

\* the balances a pull leaves when nothing of the same user runs beside it
AloneOutcome(t) ==
    /\ t0[t] > 0
    /\ StoredTickets(DB_TICKETS', user[t]) = t0[t] - 1
    /\ StoredUnits(DB_ACCOUNT', user[t]) = c0[t] + Payout(pull[t])

\* C1: a pull that read a ticket balance t > 0 and ran to completion with no
\* other pull of the same user overlapping it leaves the user's stored ticket
\* balance at t - 1 and the stored currency balance at c + payout(tier),
\* c being the balance before the pull (0 if absent).
C1_PullDebitsAndCredits ==
    [][\A t \in Tasks : (Returns(t) /\ ~overlap[t]) => AloneOutcome(t)]_vars

\* an accepted pull of a new user has returned, alone, with a non-zero payout
C1_Witness ==
    \E t \in Tasks :
        /\ pc[t] = "done" /\ result[t].kind = "won" /\ ~overlap[t]
        /\ t0[t] = 50 /\ result[t].text = to_string(5000)
        /\ StoredTickets(DB_TICKETS, user[t]) = 49
        /\ StoredUnits(DB_ACCOUNT, user[t]) = 5000

\* task t is a pull that read a zero balance and takes a step
DeclinedStep(t) ==
    \/ Free(t) /\ pc'[t] = "eat" /\ t0'[t] = 0
    \/ pc[t] = "eat" /\ pc'[t] # "eat" /\ t0[t] = 0

\* C2: a pull whose ticket balance reads as 0 returns the fixed decline
\* message and writes to neither store: every key of both stores keeps its
\* value over every step of that pull.
C2_DeclineTouchesNothing ==
    [][\A t \in Tasks :
          DeclinedStep(t) =>
             /\ DB_TICKETS' = DB_TICKETS
             /\ DB_ACCOUNT' = DB_ACCOUNT
             /\ pc[t] = "eat" =>
                   /\ pc'[t] = "done"
                   /\ result'[t] = [kind |-> "declined", text |-> NoTickets]]_vars

\* a pull of a user with a stored balance of 0 was declined
C2_Witness ==
    \E t \in Tasks :
        /\ pc[t] = "done" /\ result[t].kind = "declined" /\ t0[t] = 0
        /\ StoredTickets(DB_TICKETS, user[t]) = 0
        /\ StoredUnits(DB_ACCOUNT, user[t]) = 25

\* C3: under every interleaving of pulls, overlapping pulls of one user
\* included, no pull computes tickets - 1 from a balance read as 0: every
\* stored ticket balance is a number the word did not wrap to, every pull past
\* the check read a positive balance and holds that balance less one, and
\* every pull that read 0 was refused.
C3_NoTicketUnderflow ==
    /\ \A k \in DOMAIN DB_TICKETS :
          /\ parse(DB_TICKETS[k]) # ParseErr
          /\ parse(DB_TICKETS[k]) < DefaultTickets
    /\ \A t \in Tasks :
          /\ pc[t] \in {"guild", "add"} => t0[t] > 0 /\ tickets[t] = t0[t] - 1
          /\ (pc[t] = "done" /\ result[t].kind = "won") => t0[t] > 0
          /\ (pc[t] = "done" /\ result[t].kind = "declined") => t0[t] = 0

\* two overlapping pulls of one user both read the last ticket and both passed
\* the check; the stored balance is 0
C3_Witness ==
    \E t, s \in Tasks :
        /\ t # s /\ user[t] = user[s]
        /\ pc[t] = "guild" /\ pc[s] = "guild"
        /\ t0[t] = 1 /\ t0[s] = 1
        /\ StoredTickets(DB_TICKETS, user[t]) = 0

\* C4 (as claimed): no step makes a user's stored currency balance smaller,
\* pulls of one user that interleave included.
C4_CurrencyNeverDecreases ==
    [][\A u \in Users :
          StoredUnits(DB_ACCOUNT, u) # NoEntry =>
             StoredUnits(DB_ACCOUNT', u) >= StoredUnits(DB_ACCOUNT, u)]_vars

\* the user a store write of this step belongs to: the user of the pull that moved
Writer(t) == InPull(t) /\ pc'[t] # pc[t]

\* C6: pulls of two distinct users do not interfere: a step of one user's pull
\* changes no value stored for another user, and a pull beside which only
\* other users' pulls ran leaves its user's balances as it would alone.
C6_DistinctUsersIndependent ==
    [][\A t \in Tasks :
          /\ Writer(t) =>
                \A u \in Users \ {user[t]} :
                    /\ StoredTickets(DB_TICKETS', u) = StoredTickets(DB_TICKETS, u)
                    /\ StoredUnits(DB_ACCOUNT', u) = StoredUnits(DB_ACCOUNT, u)
          /\ (Returns(t) /\ ~overlap[t]) => AloneOutcome(t)]_vars

\* the pulls of two distinct users are in flight together, both past their
\* ticket write, and each store holds each user's own balance
C6_Witness ==
    \E t, s \in Tasks :
        /\ user[t] # user[s]
        /\ pc[t] = "add" /\ pc[s] = "add"
        /\ t0[t] = 50 /\ t0[s] = 1
        /\ StoredTickets(DB_TICKETS, user[t]) = 49
        /\ StoredTickets(DB_TICKETS, user[s]) = 0

\* C13: the read-modify-write of a pull is not atomic: each write stores a
\* value computed from the pull's own earlier read (the ticket balance it
\* read less one, the currency balance it read plus its payout), whatever
\* the store holds by then; so two interleaved pulls of one user can both
\* pass the check and complete with the stored ticket balance only 1 lower
\* and the stored currency balance reflecting one payout.
C13_WritesFromOwnRead ==
    [][\A t \in Tasks :
          /\ (pc[t] = "eat" /\ pc'[t] = "guild") =>
                /\ t0[t] > 0
                /\ StoredTickets(DB_TICKETS', user[t]) = t0[t] - 1
          /\ Returns(t) =>
                StoredUnits(DB_ACCOUNT', user[t]) = account[t] + Payout(pull[t])]_vars

\* two pulls of a new user both passed the check and returned, one announcing
\* 5000 units and one 250; the stores hold 49 tickets and 250 units
C13_Witness ==
    \E t, s \in Tasks :
        /\ t # s /\ user[t] = user[s]
        /\ pc[t] = "done" /\ pc[s] = "done"
        /\ result[t] = [kind |-> "won", text |-> to_string(5000)]
        /\ result[s] = [kind |-> "won", text |-> to_string(250)]
        /\ t0[t] = 50 /\ t0[s] = 50 /\ c0[t] = 0 /\ c0[s] = 0
        /\ StoredTickets(DB_TICKETS, user[t]) = 49
        /\ StoredUnits(DB_ACCOUNT, user[t]) = 250

\* task t fails in this step, after its ticket write
Fails(t) == pc[t] \in {"guild", "add"} /\ pc'[t] = "panicked"

\* C14: no rollback of the ticket debit: a pull that fails after it wrote
\* the decremented ticket balance (guild or emoji lookup, read of the
\* currency balance, currency write) changes neither store in failing, so
\* the user's stored ticket balance stays one lower than before the pull and
\* the currency balance as it was; every failure of a pull past its debit
\* comes before the currency credit.
C14_NoRollback ==
    [][\A t \in Tasks :
          /\ Fails(t) =>
                /\ DB_TICKETS' = DB_TICKETS
                /\ DB_ACCOUNT' = DB_ACCOUNT
                /\ ~overlap[t] =>
                      /\ StoredTickets(DB_TICKETS', user[t]) = t0[t] - 1
                      /\ ReadAccount(DB_ACCOUNT', user[t]) = c0[t]
          /\ (InPull(t) /\ pc'[t] = "panicked") =>
                /\ Fails(t)
                /\ result'[t] = NoResult]_vars

\* a pull of a user with 1 ticket and 25 units has failed after its debit:
\* 0 tickets and 25 units are stored
C14_Witness ==
    \E t \in Tasks :
        /\ pc[t] = "panicked" /\ ~overlap[t]
        /\ t0[t] = 1 /\ c0[t] = 25
        /\ StoredTickets(DB_TICKETS, user[t]) = 0
        /\ StoredUnits(DB_ACCOUNT, user[t]) = 25

\* pulls the new user has begun
Begun == FreshPulls - pending

\* C5: for a new user an absent ticket balance counts as 50 and an absent
\* currency balance as 0: with the pulls run one after another, after k
\* returned pulls (0 < k <= 50) the stored ticket balance is 50 - k and the
\* currency balance the sum of the k payouts; the first 50 pulls are
\* accepted, the 51st and every later one declined.
C5_FreshUserFiftyPulls ==
    (\A t \in Tasks : ~InPull(t)) =>
        /\ wins = (IF Begun <= 50 THEN Begun ELSE 50)
        /\ wins = 0 => DB_TICKETS = None /\ DB_ACCOUNT = None
        /\ wins > 0 =>
              /\ StoredTickets(DB_TICKETS, FreshUser) = 50 - wins
              /\ StoredUnits(DB_ACCOUNT, FreshUser) = paid
        /\ (Begun > 0 /\ Begun <= 50) => result[1].kind = "won"
        /\ Begun > 50 => result[1] = [kind |-> "declined", text |-> NoTickets]

\* the 52nd pull has been declined after 50 accepted ones with some payout
C5_Witness ==
    /\ Begun = 52 /\ pc[1] = "done" /\ result[1].kind = "declined"
    /\ wins = 50 /\ paid = 50 * 100
    /\ StoredTickets(DB_TICKETS, FreshUser) = 0
    /\ StoredUnits(DB_ACCOUNT, FreshUser) = 5000

---------------------------------------------------------------------------
(* Properties of the decorative loop *)

\* the place in hist of the draw that became extra[k]
RECURSIVE PushedAt(_, _)
PushedAt(k, from) ==
    IF hist[from].pushed
    THEN IF k = 1 THEN from ELSE PushedAt(k - 1, from + 1)
    ELSE PushedAt(k, from + 1)

\* extra holds one emoji at positions i, i + 1 and i + 2
Triple(i) == extra[i] = extra[i + 1] /\ extra[i + 1] = extra[i + 2]

Triples == {i \in 1..(Len(extra) - 2) : Triple(i)}

\* the first position of the run of equal symbols that position i lies in
RECURSIVE RunStart(_)
RunStart(i) ==
    IF i > 1 /\ extra[i - 1] = extra[i] THEN RunStart(i - 1) ELSE i

\* a draw of extra[i] was discarded between the draws that became the second
\* and the third symbol of the run position i lies in
RerolledInRun(i) ==
    LET r == RunStart(i)
    IN  \E j \in (PushedAt(r + 1, 1) + 1)..(PushedAt(r + 2, 1) - 1) :
            hist[j].emoji = extra[i] /\ ~hist[j].pushed

\* C9: the loop returns exactly 6 symbols, and wherever three consecutive
\* positions of them hold one symbol, a draw of that symbol was discarded
\* during that run of the symbol (before its third symbol was pushed): with
\* no draw discarded, three draws of one symbol in a row are never all pushed.
C9_TripleOnlyAfterReroll ==
    /\ Len(extra) <= 6
    /\ gpc = "flush" <=> Len(extra) = 6
    /\ \A i \in Triples : RerolledInRun(i)
    /\ (\A j \in 1..Len(hist) : hist[j].pushed) => Triples = {}

\* the loop has returned 6 symbols with three in a row, one draw discarded
C9_Witness ==
    /\ gpc = "flush" /\ Len(extra) = 6
    /\ Triple(2)
    /\ \E j \in 1..Len(hist) : ~hist[j].pushed /\ hist[j].emoji = extra[2]

\* C10 (as claimed): the six symbols returned never hold one symbol at three
\* consecutive positions.
C10_NoThreeInARow ==
    gpc = "flush" => Triples = {}

\* the last symbol the loop accepted (pushed); emoji_default before the first
LastAccepted == IF extra = <<>> THEN emoji_default ELSE extra[Len(extra)]

\* C17: reroll bookkeeping: a draw equal to the last accepted symbol
\* increments the repeat count, any other draw resets it to 0 and becomes the
\* last accepted symbol; the draw that brings the count to exactly 2 is
\* discarded, with the last accepted symbol unchanged and the count left at
\* 2, every other draw is pushed; so an identical draw right after the
\* discard raises the count to 3 and is accepted.
C17_RerollBookkeeping ==
    [][LET d == hist'[Len(hist')]
           afterDiscard == Len(hist) > 0 /\ ~hist[Len(hist)].pushed
       IN  /\ Len(hist') = Len(hist) + 1
           /\ last_emote = LastAccepted
           /\ d.emoji = last_emote => same' = same + 1 /\ last_emote' = last_emote
           /\ d.emoji # last_emote => same' = 0 /\ last_emote' = d.emoji
           /\ ~d.pushed <=> same' = 2
           /\ ~d.pushed => extra' = extra /\ last_emote' = last_emote
           /\ d.pushed => extra' = Append(extra, d.emoji)
           /\ afterDiscard => same = 2
           /\ (afterDiscard /\ d.emoji = hist[Len(hist)].emoji) =>
                 same' = 3 /\ d.pushed]_vars

\* four draws of one symbol: the third discarded, the fourth accepted with
\* the count at 3, which makes a run of three
C17_Witness ==
    /\ Len(hist) = 4
    /\ \A j \in 1..4 : hist[j].emoji = "delfruit"
    /\ ~hist[3].pushed /\ hist[4].pushed
    /\ same = 3
    /\ extra = <<"delfruit", "delfruit", "delfruit">>

\* the draws the loop discarded
Discards == {j \in 1..Len(hist) : ~hist[j].pushed}

\* C20: the loop terminates for every sequence of draws: the first draw is
\* always accepted, a discarded draw is always followed by an accepted one,
\* at most 2 draws are discarded, every accepted draw adds one symbol, and
\* the loop has ended after at most 8 draws.
C20_LoopTerminates ==
    /\ Len(hist) <= 8
    /\ gpc = "loop" => Len(hist) < 8
    /\ Len(hist) >= 1 => hist[1].pushed
    /\ \A j \in 1..(Len(hist) - 1) : ~hist[j].pushed => hist[j + 1].pushed
    /\ Cardinality(Discards) <= 2
    /\ Len(extra) = Len(hist) - Cardinality(Discards)
    /\ gpc = "flush" <=> Len(extra) = Enough

\* the loop has ended after 8 draws, 2 of them discarded
C20_Witness ==
    /\ gpc = "flush"
    /\ Len(hist) = 8
    /\ Discards = {3, 6}
    /\ \A j \in 1..8 : hist[j].emoji = (IF j <= 3 THEN "mayumushi"
                                        ELSE IF j <= 6 THEN "thisdog" ELSE "miku")

---------------------------------------------------------------------------
(* Properties of the backup thread *)

\* the local files a cycle creates
Temporaries == {f \in DOMAIN files : f[2] \in {"tickets.txt", "account.txt", "_backup.zip"}}

\* C7 (as claimed): a failing step aborts only its cycle; the backup loop
\* stays alive and goes on to its next sleep, so the thread never ends.
C7_LoopSurvivesFailure ==
    bpc # "exited"

\* C8 (as claimed): a cycle that fails after creating local files still
\* removes them: once a cycle has ended, by failure or not, none of
\* tickets.txt, account.txt and the archive is left.
C8_FailedCycleCleansUp ==
    bpc \in {"exited", "sleep"} => Temporaries = {}

---------------------------------------------------------------------------
(* Properties of the reply *)

\* the pieces of a sequence that end in the separator, without it; what
\* follows the last separator is Unterminated
RECURSIVE Terminated(_, _)
Terminated(q, sep) ==
    IF \A i \in 1..Len(q) : q[i] # sep THEN <<>>
    ELSE LET n == CHOOSE i \in 1..Len(q) :
                      q[i] = sep /\ \A j \in 1..(i - 1) : q[j] # sep
         IN  <<SubSeq(q, 1, n - 1)>> \o Terminated(SubSeq(q, n + 1, Len(q)), sep)

RECURSIVE Unterminated(_, _)
Unterminated(q, sep) ==
    IF \A i \in 1..Len(q) : q[i] # sep THEN q
    ELSE LET n == CHOOSE i \in 1..Len(q) :
                      q[i] = sep /\ \A j \in 1..(i - 1) : q[j] # sep
         IN  Unterminated(SubSeq(q, n + 1, Len(q)), sep)

\* the lines of a message: the pieces before each "\n"; what follows the
\* last "\n" is not a line of the grid
LinesOf(m) == Terminated(m, "\n")

\* the emojis a cell can show
Symbols == {Emoji(p) : p \in Tiers} \cup {Emote(p) : p \in Tiers}

\* a line of the form |sym|sym|sym|
IsRow(l) ==
    /\ Len(l) = 7
    /\ \A i \in {1, 3, 5, 7} : l[i] = "|"
    /\ \A i \in {2, 4, 6} : l[i] \in Symbols

Cells(l) == <<l[2], l[4], l[6]>>

\* the decorative symbols in the order the loop generated (pushed) them
Decorative ==
    LET ok == SelectSeq(hist, LAMBDA d : d.pushed)
    IN  [i \in 1..Len(ok) |-> ok[i].emoji]

\* the cells of the two lines that are not line w, top to bottom
OtherCells(ls, w) ==
    IF w = 1 THEN Cells(ls[2]) \o Cells(ls[3])
    ELSE IF w = 2 THEN Cells(ls[1]) \o Cells(ls[3])
    ELSE Cells(ls[1]) \o Cells(ls[2])

Count(q, x) == Cardinality({i \in 1..Len(q) : q[i] = x})

\* the grid is written in full
Rendered == gpc \in {"react", "built"}

\* C11: for every winning row r, winning symbol A and decorative symbols, the
\* rendered grid is exactly three lines of the form |sym|sym|sym|, line r + 1
\* is |A|A|A|, and the six cells of the two other lines are the six decorative
\* symbols (each as often as the loop generated it), none of them a cell of
\* the winning row.
C11_WinningRowInPlace ==
    LET ls == LinesOf(msg)
        A == Emote(drawn)
    IN  /\ gpc \in {"line1", "line2", "line3", "react", "built"} =>
              /\ Len(ls) <= 3
              /\ \A k \in 1..Len(ls) : IsRow(ls[k])
              /\ row + 1 <= Len(ls) => ls[row + 1] = <<"|", A, "|", A, "|", A, "|">>
        /\ Rendered =>
              /\ Len(ls) = 3
              /\ Len(Decorative) = 6
              /\ \A x \in Symbols :
                    Count(OtherCells(ls, row + 1), x) = Count(Decorative, x)

\* a reply whose winning row is the middle line, with the winning symbol also
\* among the decorative ones
C11_Witness ==
    /\ gpc = "built" /\ row = 1 /\ drawn = "VCommon"
    /\ LinesOf(msg)[2] = <<"|", "thisdog", "|", "thisdog", "|", "thisdog", "|">>
    /\ Count(Decorative, "thisdog") = 2
    /\ Count(OtherCells(LinesOf(msg), 2), "thisdog") = 2

Reverse(q) == [i \in 1..Len(q) |-> q[Len(q) + 1 - i]]

\* the winning row as a line
WinningCells == <<Emote(drawn), Emote(drawn), Emote(drawn)>>

\* C15 (as claimed): for winning row 1 and winning row 2 the decorative
\* symbols d0..d5 are rendered in generation order: |d0|d1|d2| and |d3|d4|d5|
\* around (row 1) or above (row 2) the winning row.
C15_GenerationOrder ==
    (Rendered /\ row \in {1, 2}) =>
        OtherCells(LinesOf(msg), row + 1) = Decorative

\* C15 (amended): for winning row 1 and winning row 2 the decorative symbols
\* are rendered in reverse generation order, as for row 0: winningRow = 1
\* renders |d5|d4|d3|, then the winning row, then |d2|d1|d0|; winningRow = 2
\* renders |d5|d4|d3|, then |d2|d1|d0|, then the winning row.
C15_ReverseOrder ==
    (Rendered /\ row \in {1, 2}) =>
        LET ls == LinesOf(msg)
            d == Decorative
        IN  /\ Len(ls) = 3 /\ Len(d) = 6
            /\ Cells(ls[1]) = <<d[6], d[5], d[4]>>
            /\ row = 1 => /\ Cells(ls[2]) = WinningCells
                          /\ Cells(ls[3]) = <<d[3], d[2], d[1]>>
            /\ row = 2 => /\ Cells(ls[2]) = <<d[3], d[2], d[1]>>
                          /\ Cells(ls[3]) = WinningCells

\* a reply with winning row 2 whose decorative symbols tell the two orders apart
C15_Witness ==
    /\ gpc = "built" /\ row = 2
    /\ Decorative = <<"thisdog", "thisdog", "delfruit", "bigface", "bigface", "delfruit">>
    /\ Cells(LinesOf(msg)[1]) = <<"delfruit", "bigface", "bigface">>
    /\ Cells(LinesOf(msg)[2]) = <<"delfruit", "thisdog", "thisdog">>

\* C16: for winning row 0 the decorative symbols are consumed in reverse
\* generation order: the winning row, then |d5|d4|d3|, then |d2|d1|d0|.
C16_RowZeroReverseOrder ==
    (Rendered /\ row = 0) =>
        LET ls == LinesOf(msg)
            d == Decorative
        IN  /\ Len(ls) = 3 /\ Len(d) = 6
            /\ Cells(ls[1]) = WinningCells
            /\ Cells(ls[2]) = <<d[6], d[5], d[4]>>
            /\ Cells(ls[3]) = <<d[3], d[2], d[1]>>

\* a reply with winning row 0 whose last-generated symbol is rendered first
C16_Witness ==
    /\ gpc = "built" /\ row = 0 /\ drawn = "Jackpot"
    /\ Decorative = <<"thisdog", "delfruit", "thisdog", "delfruit", "delfruit", "bigface">>
    /\ Cells(LinesOf(msg)[1]) = <<"mayumushi_ani", "mayumushi_ani", "mayumushi_ani">>
    /\ OtherCells(LinesOf(msg), 1) = Reverse(Decorative)

\* the cells of a line or of a line being written: what follows each "|"
CellsOf(l) == [i \in 1..(Len(l) \div 2) |-> l[2 * i]]

\* the decorative cells written so far, in the order they were written: the
\* cells of the finished lines other than the winning one, and those of the
\* line a loop is writing
DecorCells ==
    LET ls == LinesOf(msg)
        Part(k) == IF k <= Len(ls) /\ k # row + 1 THEN CellsOf(ls[k]) ELSE <<>>
        open == IF gpc \in LinePcs THEN CellsOf(Unterminated(msg, "\n")) ELSE <<>>
    IN  Part(1) \o Part(2) \o Part(3) \o open

\* C21: in each of the three branches the rendering consumes the decorative
\* sequence completely and safely: no pop is made on an empty vector (the
\* unwrap never panics), the k-th pop writes the k-th last generated symbol
\* to a cell of its own, each of the two other lines gets exactly 3 of them,
\* and the finished grid has 9 cells, 3 winning and 6 decorative, with
\* nothing left in the vector.
C21_RenderingConsumesAll ==
    /\ gpc # "panicked"
    /\ (gpc \in LinePcs /\ gpc # WinningLine(row)) => Len(extra) > StopAt(gpc, row)
    /\ gpc \in LinePcs \cup {"react", "built"} =>
          LET ls == LinesOf(msg)
          IN  /\ DecorCells \o Reverse(extra) = Reverse(Decorative)
              /\ \A k \in 1..Len(ls) : Len(CellsOf(ls[k])) = 3
              /\ gpc \in LinePcs => Len(CellsOf(Unterminated(msg, "\n"))) < 3
    /\ Rendered =>
          LET ls == LinesOf(msg)
          IN  /\ extra = <<>>
              /\ Len(ls) = 3
              /\ Len(DecorCells) = 6
              /\ Len(CellsOf(ls[1])) + Len(CellsOf(ls[2])) + Len(CellsOf(ls[3])) = 9
              /\ CellsOf(ls[row + 1]) = WinningCells

\* the second loop of the row 1 branch is about to make the last pop: five
\* decorative cells are written and the first-generated symbol is left
C21_Witness ==
    /\ gpc = "line3" /\ row = 1 /\ drawn = "Epic"
    /\ Decorative = <<"bigface", "thisdog", "thisdog", "delfruit", "thisdog", "delfruit">>
    /\ extra = <<"bigface">>
    /\ DecorCells = <<"delfruit", "thisdog", "delfruit", "thisdog", "thisdog">>
    /\ Len(LinesOf(msg)) = 2

---------------------------------------------------------------------------
(* Properties of the export *)

\* the lines of a dump after the identifier and the store tag
PairLines(data) ==
    LET ls == Terminated(data, 10)
    IN  SubSeq(ls, 3, Len(ls))

\* a line `key,value` read back: the text before its first comma and the
\* text after it
KeyOf(l) == Unterminated(Terminated(l \o <<44>>, 44)[1], 44)
ValueOf(l) == SubSeq(l, Len(KeyOf(l)) + 2, Len(l))

\* the mapping the pair lines of a dump spell out
ParseBack(data) ==
    LET ls == PairLines(data)
    IN  [k \in {KeyOf(ls[i]) : i \in 1..Len(ls)} |->
            ValueOf(ls[CHOOSE i \in 1..Len(ls) : KeyOf(ls[i]) = k])]

\* the dump is the two header lines and then every pair of db exactly once
\* as a line key,value, and reads back as db
RoundTrip(data, db) ==
    LET ls == Terminated(data, 10)
    IN  /\ Unterminated(data, 10) = <<>>
        /\ Len(ls) = 2 + Cardinality(DOMAIN db)
        /\ ls[1] = ExportType
        /\ ls[2] = ExportName
        /\ \A k \in DOMAIN db :
              Cardinality({i \in 3..Len(ls) : ls[i] = k \o <<44>> \o db[k]}) = 1
        /\ \A i \in 3..Len(ls) : Count(ls[i], 44) = 1
        /\ ParseBack(data) = db

\* C12: export round trip: the flat file an export has just written holds,
\* after the identifier line and the store-tag line, every key/value pair of
\* the store exactly once as a line `key,value`, and reading those lines back
\* gives exactly the store's mapping.
C12_ExportRoundTrip ==
    [][/\ (bpc = "tickets" /\ bpc' = "account") =>
              RoundTrip(files'[TicketsTxt].data, DB_TICKETS)
       /\ (bpc = "account" /\ bpc' = "zip") =>
              RoundTrip(files'[AccountTxt].data, DB_ACCOUNT)]_vars

\* both exports done over stores of two users whose balances differ
C12_Witness ==
    /\ bpc = "zip"
    /\ Cardinality(DOMAIN DB_TICKETS) = 2
    /\ ParseBack(files[TicketsTxt].data) = DB_TICKETS
    /\ ParseBack(files[AccountTxt].data) = DB_ACCOUNT
    /\ \E k \in DOMAIN DB_ACCOUNT : parse(DB_ACCOUNT[k]) = 5025
    /\ \E k \in DOMAIN DB_TICKETS : parse(DB_TICKETS[k]) = 0
    /\ Len(PairLines(files[AccountTxt].data)) = 2

---------------------------------------------------------------------------
(* Properties of a backup cycle *)

\* the order of the steps of a cycle, and where a failing step leads
CycleOrder ==
    {<<"sleep", "tickets">>, <<"tickets", "account">>, <<"account", "zip">>,
     <<"zip", "upload">>, <<"upload", "cleanup">>, <<"cleanup", "sleep">>,
     <<"tickets", "exited">>, <<"account", "exited">>, <<"zip", "exited">>,
     <<"upload", "exited">>}

\* a flat file holding a whole dump: the header and complete lines only
WholeDump(name) ==
    /\ name \in DOMAIN files'
    /\ Unterminated(files'[name].data, 10) = <<>>
    /\ Len(Terminated(files'[name].data, 10)) >= 2

\* C18: within a cycle the steps come in the order export tickets, export
\* currency, build archive, upload, delete local files; the upload is
\* attempted only with both flat files and the archive written, the object
\* key of the upload is the archive's file name and the object its content,
\* local files are deleted only after the upload succeeded, and after a
\* cycle in which every step (the three deletions included) succeeded none
\* of tickets.txt, account.txt and the archive is left.
C18_CycleOrder ==
    [][/\ bpc' # bpc => <<bpc, bpc'>> \in CycleOrder
       /\ bpc' = "upload" =>
             /\ WholeDump(TicketsTxt) /\ WholeDump(AccountTxt)
             /\ path' = BackupZip(now) /\ path' \in DOMAIN files'
             /\ files'[path'].entries =
                   << <<"db/", <<>> >>,
                      <<"db/tickets.txt", files'[TicketsTxt].data>>,
                      <<"db/account.txt", files'[AccountTxt].data>> >>
       /\ bucket' # bucket =>
             /\ bpc = "upload" /\ bpc' = "cleanup"
             /\ path \in DOMAIN files
             /\ bucket' = Create(bucket, path, files[path])
       /\ (\E f \in DOMAIN files : f \notin DOMAIN files') =>
             /\ bpc = "cleanup"
             /\ path \in DOMAIN bucket /\ bucket[path] = files[path]
       /\ (bpc = "cleanup" /\ bpc' = "sleep") =>
             /\ \A f \in DOMAIN files' : f \in DOMAIN files /\ files'[f] = files[f]
             /\ DOMAIN files \ DOMAIN files' = removed'
             /\ removed' \subseteq {TicketsTxt, AccountTxt, path}
             /\ removed' = {TicketsTxt, AccountTxt, path} =>
                   DOMAIN files' \cap {TicketsTxt, AccountTxt, path} = {}]_vars

\* a cycle has run in full: the archive is in the bucket under its file name
\* with both dumps in it, and no file is left locally
C18_Witness ==
    /\ bpc = "sleep" /\ cycles = 1
    /\ DOMAIN bucket = {BackupZip(Epoch0 + SleepSecs)}
    /\ path = BackupZip(Epoch0 + SleepSecs)
    /\ bucket[path].entries[2][2] = Dump(DB_TICKETS)
    /\ Cardinality(DOMAIN DB_TICKETS) = 2
    /\ removed = {TicketsTxt, AccountTxt, path}
    /\ files = <<>>

\* a step of the backup thread
BackupStep == backupVars' # backupVars

\* the next step of a pull in flight can be taken
PullCanStep(t) ==
    /\ pc[t] = "eat" => ENABLED EatTicket(t)
    /\ pc[t] = "guild" => ENABLED (\E p \in Tiers : PerformPull(t, p))
    /\ pc[t] = "add" => ENABLED AddUnits(t)

\* C19: the backup is read-only relative to the ledger and takes no lock: no
\* step of a cycle, failing ones included, changes a key or value of either
\* store or anything of a handler, and whatever the backup thread is doing,
\* a pull in flight can take its next step, also when the cycle runs between
\* the ticket write and the currency write of the pull.
C19_BackupReadOnly ==
    [][/\ BackupStep =>
             /\ DB_TICKETS' = DB_TICKETS
             /\ DB_ACCOUNT' = DB_ACCOUNT
             /\ handlerVars' = handlerVars
       /\ \A t \in Tasks : PullCanStep(t)]_vars

\* both exports ran between the ticket write and the currency write of a
\* pull of a new user: tickets.txt has the debit, account.txt no credit, and
\* the pull is about to write its credit
C19_Witness ==
    \E t \in Tasks :
        /\ pc[t] = "add" /\ t0[t] = 50 /\ c0[t] = 0
        /\ bpc = "zip"
        /\ StoredTickets(DB_TICKETS, user[t]) = 49
        /\ ParseBack(files[TicketsTxt].data) = DB_TICKETS
        /\ Key(user[t]) \notin DOMAIN ParseBack(files[AccountTxt].data)
        /\ ENABLED AddUnits(t)

=============================================================================
